---- MODULE Spec2Model ----
(***************************************************************************)
(* LinkySteps (src/app.py): a Flask link shortener.  The model covers the  *)
(* Link Store (table links), the code generator (random_code,              *)
(* unique_code), URL validation (is_valid_url) and the request handlers    *)
(* create, go, interstitial, final and api_info.                           *)
(*                                                                         *)
(* Every request runs on its own thread with its own sqlite3 connection    *)
(* (get_db), so handlers interleave at statement granularity: one action   *)
(* of the model is one SQL statement (with the commit that follows it)     *)
(* together with the Python code around it.  Handlers that execute a       *)
(* single SELECT (go, interstitial, api_info) are one action each.         *)
(*                                                                         *)
(* Strings are sequences of one-character strings.  The code alphabet and  *)
(* the code length are scaled down (62 symbols and 6 characters in the     *)
(* source) so that the code space can be enumerated.                       *)
(***************************************************************************)
EXTENDS Integers, Sequences, FiniteSets, TLC

\* ------------------------------------------------------------------ bounds

\* Number of requests that can be in flight at the same time.
MaxInflight == 2
\* Number of requests served in one behaviour; also the last clock value.
MaxNow == 3
\* Largest step number a visitor puts in /s/<code>/<step>.
MaxStep == 3
\* Largest configured number of interstitial pages that is explored.
MaxTotal == 2

\* ------------------------------------------------------- program constants

\* CODE_LEN = 6 in the source; scaled down together with BASE62.
CODE_LEN == 1

\* BASE62 = string.ascii_letters + string.digits; scaled down to two symbols.
BASE62 == {"a", "b"}

\* ---------------------------------------------------------------- strings

Whitespace == {" "}

RECURSIVE LStrip(_)
LStrip(s) ==
    IF s # <<>> /\ Head(s) \in Whitespace THEN LStrip(Tail(s)) ELSE s

RECURSIVE RStrip(_)
RStrip(s) ==
    IF s # <<>> /\ s[Len(s)] \in Whitespace
    THEN RStrip(SubSeq(s, 1, Len(s) - 1))
    ELSE s

\* str.strip()
Strip(s) == RStrip(LStrip(s))

\* str.find(ch), 1-based; 0 when ch does not occur.
Find(s, ch) ==
    IF \E i \in 1..Len(s) : s[i] = ch
    THEN CHOOSE i \in 1..Len(s) : s[i] = ch /\ \A j \in 1..(i - 1) : s[j] # ch
    ELSE 0

UpperToLower == [x \in {"H", "T", "P", "S"} |->
                    CASE x = "H" -> "h" [] x = "T" -> "t"
                      [] x = "P" -> "p" [] x = "S" -> "s"]

LowerCh(ch) == IF ch \in DOMAIN UpperToLower THEN UpperToLower[ch] ELSE ch

\* str.lower()
Lower(s) == [i \in 1..Len(s) |-> LowerCh(s[i])]

Letters == {"a", "b", "f", "h", "p", "s", "t", "H", "T", "P", "S"}

\* urllib.parse.scheme_chars: letters, digits and "+-."
SchemeChars == Letters \cup {"+", "-", "."}

\* urlsplit: the scheme is the text before the first ":" when that text
\* starts with a letter and holds scheme characters only; it is lowercased.
HasScheme(u) ==
    LET i == Find(u, ":")
    IN  /\ i > 1
        /\ u[1] \in Letters
        /\ \A j \in 1..(i - 1) : u[j] \in SchemeChars

UrlScheme(u) ==
    IF HasScheme(u) THEN Lower(SubSeq(u, 1, Find(u, ":") - 1)) ELSE <<>>

AfterScheme(u) ==
    IF HasScheme(u) THEN SubSeq(u, Find(u, ":") + 1, Len(u)) ELSE u

\* urlsplit / _splitnetloc: after "//" the netloc runs to the first of "/?#".
UrlNetloc(u) ==
    LET r == AfterScheme(u)
    IN  IF Len(r) >= 2 /\ r[1] = "/" /\ r[2] = "/"
        THEN LET rest  == SubSeq(r, 3, Len(r))
                 stops == {i \in 1..Len(rest) : rest[i] \in {"/", "?", "#"}}
                 delim == IF stops = {} THEN Len(rest) + 1
                          ELSE CHOOSE i \in stops : \A j \in stops : i <= j
             IN  SubSeq(rest, 1, delim - 1)
        ELSE <<>>

InSeq(ch, s) == \E i \in 1..Len(s) : s[i] = ch

\* urlsplit raises ValueError("Invalid IPv6 URL") on an unbalanced bracket.
UrlParseRaises(u) ==
    LET n == UrlNetloc(u)
    IN  InSeq("[", n) # InSeq("]", n)

HTTP == <<"h", "t", "t", "p">>
HTTPS == <<"h", "t", "t", "p", "s">>

\* is_valid_url with the scheme test left out.
is_valid_url_AnyScheme(u) ==
    IF UrlParseRaises(u) THEN FALSE
    ELSE UrlNetloc(u) # <<>>

is_valid_url(u) ==
    IF UrlParseRaises(u) THEN FALSE
    ELSE UrlScheme(u) \in {HTTP, HTTPS} /\ UrlNetloc(u) # <<>>

\* ----------------------------------------------------------------- inputs

Sep == <<":", "/", "/">>

\* Values a client submits in the form field "target".
RawTargets ==
    { HTTP \o Sep \o <<"a">>,                          \* "http://a"
      <<" ", "H", "t", "t", "p", "s">> \o Sep \o <<"b", " ">>, \* " Https://b "
      <<"f", "t", "p">> \o Sep \o <<"a">>,             \* "ftp://a"
      <<"a", "-", "b">>,                               \* "a-b" (no scheme)
      HTTP \o Sep,                                     \* "http://"
      HTTP \o Sep \o <<"[">>,                          \* "http://["
      <<" ">> }                                        \* blank

\* ------------------------------------------------------------------ codes

\* "".join(random.choice(BASE62) for _ in range(n)): every possible outcome.
random_code(n) == [1..n -> BASE62]

\* Codes a visitor can put in a URL: every well-formed code.
Codes == [1..CODE_LEN -> BASE62]

NoCode == <<>>
NoText == <<>>

\* ------------------------------------------------------------------ state

VARIABLES
    links,               \* table links: code -> [target, created_at, title, clicks]
    req,                 \* the requests in flight: handler position and locals
    now,                 \* datetime.utcnow(); one tick per served request
    last,                \* the request served last and the response it got
    created,             \* <<code, target>> of every create that was answered 200
    INTERSTITIAL_STEPS   \* configured number of interstitial pages

vars == <<links, req, now, last, created, INTERSTITIAL_STEPS>>

Slots == 1..MaxInflight

NoRow == [target |-> NoText, created_at |-> 0, title |-> NoText, clicks |-> 0]

\* A request slot that is handling nothing.  The locals of the handlers:
\* raw and target (create), c (unique_code), code, row and target (final).
Idle ==
    [pc |-> "idle", raw |-> NoText, target |-> NoText, c |-> NoCode,
     code |-> NoCode, row |-> NoRow]

Inflight == {w \in Slots : req[w].pc # "idle"}

\* A new request is accepted while every request in flight can still be served.
CanStart == now + Cardinality(Inflight) < MaxNow

\* ------------------------------------------------------------- Link Store

\* SELECT ... FROM links WHERE code = ? ... fetchone() is not None
HasRow(c) == c \in DOMAIN links

\* INSERT OR REPLACE INTO links(code, target, created_at, title) VALUES(?,?,?,?)
\* The row under code, if any, is deleted and a new row is inserted; clicks
\* is not in the column list and takes its DEFAULT 0.
InsertOrReplace(tbl, code, target, created_at) ==
    [k \in DOMAIN tbl \cup {code} |->
        IF k = code
        THEN [target |-> target, created_at |-> created_at,
              title |-> NoText, clicks |-> 0]
        ELSE tbl[k]]

\* The UPDATE without its commit: the increment never reaches the table.
IncrementClicks_NoCommit(tbl, code) == tbl

\* The UPDATE without its WHERE clause: every row is incremented.
IncrementClicks_NoWhere(tbl, code) ==
    [k \in DOMAIN tbl |-> [tbl[k] EXCEPT !.clicks = @ + 1]]

\* UPDATE links SET clicks = clicks + 1 WHERE code=?   (no row: no change)
IncrementClicks(tbl, code) ==
    [k \in DOMAIN tbl |->
        IF k = code THEN [tbl[k] EXCEPT !.clicks = @ + 1] ELSE tbl[k]]

\* -------------------------------------------------------------- responses

\* url_for(route, code=..., step=...)
Url(route, code, step) == [route |-> route, code |-> code, step |-> step]

NoUrl == Url("none", NoCode, 0)

\* The request (op, code, step, raw) and what the handler returned for it.
Response(op, code, step, raw, status, kind, loc, target, created_at, clicks) ==
    [op |-> op, code |-> code, step |-> step, raw |-> raw,
     status |-> status, kind |-> kind, loc |-> loc, target |-> target,
     created_at |-> created_at, clicks |-> clicks]

\* abort(404) -> not_found(e)
NotFound(op, code, step) ==
    Response(op, code, step, NoText, 404, "not_found_page", NoUrl, NoText, 0, 0)

\* ------------------------------------------------------------------- Init

\* The table is empty after init_db on a fresh database, no request is in
\* flight, and INTERSTITIAL_STEPS holds its configured value (1 in the source;
\* every value up to MaxTotal is explored).
Init ==
    /\ links = [k \in {} |-> 0]
    /\ req = [w \in Slots |-> Idle]
    /\ now = 0
    /\ last = Response("none", NoCode, 0, NoText, 0, "none", NoUrl, NoText, 0, 0)
    /\ created = {}
    /\ INTERSTITIAL_STEPS \in 1..MaxTotal

\* A handler returns: its response is recorded and the clock moves on.
Respond(r) ==
    /\ last' = r
    /\ now' = now + 1

\* ----------------------------------------------------------------- create

\* create(), the request is refused:
\*   target = (request.form.get("target") or "").strip()
\*   if not is_valid_url(target): return render_template_string(INDEX_HTML, ...), 400
CreateInvalid(raw) ==
    /\ CanStart
    /\ ~is_valid_url(Strip(raw))
    /\ Respond(Response("create", NoCode, 0, raw, 400, "form", NoUrl, NoText, 0, 0))
    /\ UNCHANGED <<links, req, created, INTERSTITIAL_STEPS>>

\* create(), the target is valid: the handler enters unique_code().
CreateValid(w, raw) ==
    /\ CanStart
    /\ req[w].pc = "idle"
    /\ is_valid_url(Strip(raw))
    /\ req' = [req EXCEPT ![w] = [Idle EXCEPT !.pc = "unique_code", !.raw = raw,
                                                !.target = Strip(raw)]]
    /\ UNCHANGED <<links, now, last, created, INTERSTITIAL_STEPS>>

\* unique_code(), one turn of the loop whose SELECT finds a row: try again.
UniqueCodeRetry(w, c) ==
    /\ req[w].pc = "unique_code"
    /\ c \in random_code(CODE_LEN)
    /\ HasRow(c)
    /\ req' = [req EXCEPT ![w].c = c]
    /\ UNCHANGED <<links, now, last, created, INTERSTITIAL_STEPS>>

\* unique_code() returning its candidate without the SELECT.
UniqueCodeReturn_NoLookup(w, c) ==
    /\ req[w].pc = "unique_code"
    /\ c \in random_code(CODE_LEN)
    /\ req' = [req EXCEPT ![w].c = c, ![w].code = c, ![w].pc = "insert"]
    /\ UNCHANGED <<links, now, last, created, INTERSTITIAL_STEPS>>

\* unique_code(), one turn of the loop whose SELECT finds no row: return c.
UniqueCodeReturn(w, c) ==
    /\ req[w].pc = "unique_code"
    /\ c \in random_code(CODE_LEN)
    /\ ~HasRow(c)
    /\ req' = [req EXCEPT ![w].c = c, ![w].code = c, ![w].pc = "insert"]
    /\ UNCHANGED <<links, now, last, created, INTERSTITIAL_STEPS>>

\* create(): INSERT OR REPLACE, commit, and the page with the short URL.
CreateInsert(w) ==
    /\ req[w].pc = "insert"
    /\ links' = InsertOrReplace(links, req[w].code, req[w].target, now)
    /\ created' = created \cup {<<req[w].code, req[w].target>>}
    /\ Respond(Response("create", req[w].code, 0, req[w].raw, 200, "short",
                        Url("go", req[w].code, 0), req[w].target, 0, 0))
    /\ req' = [req EXCEPT ![w] = Idle]
    /\ UNCHANGED INTERSTITIAL_STEPS

\* --------------------------------------------------------------------- go

\* go(code) without the existence check.
go_NoLookup(code) ==
    /\ CanStart
    /\ Respond(Response("go", code, 0, NoText, 302, "redirect",
                        Url("interstitial", code, 1), NoText, 0, 0))
    /\ UNCHANGED <<links, req, created, INTERSTITIAL_STEPS>>

\* go(code): SELECT, then abort(404) or redirect to the first interstitial.
go(code) ==
    /\ CanStart
    /\ Respond(IF ~HasRow(code)
               THEN NotFound("go", code, 0)
               ELSE Response("go", code, 0, NoText, 302, "redirect",
                             Url("interstitial", code, 1), NoText, 0, 0))
    /\ UNCHANGED <<links, req, created, INTERSTITIAL_STEPS>>

\* ----------------------------------------------------------- interstitial

\* interstitial with "step <= total" where the source has "step < total".
InterstitialPage_OffByOne(code, step) ==
    LET total == INTERSTITIAL_STEPS
    IN  IF step > total
        THEN Response("interstitial", code, step, NoText, 302, "redirect",
                      Url("final", code, 0), NoText, 0, 0)
        ELSE Response("interstitial", code, step, NoText, 200, "waiting",
                      IF step <= total THEN Url("interstitial", code, step + 1)
                                       ELSE Url("final", code, 0),
                      NoText, 0, 0)

\* What interstitial(code, step) returns for a code that has a row.
InterstitialPage(code, step) ==
    LET total == INTERSTITIAL_STEPS
    IN  IF step > total
        THEN Response("interstitial", code, step, NoText, 302, "redirect",
                      Url("final", code, 0), NoText, 0, 0)
        ELSE Response("interstitial", code, step, NoText, 200, "waiting",
                      IF step < total THEN Url("interstitial", code, step + 1)
                                      ELSE Url("final", code, 0),
                      NoText, 0, 0)

interstitial(code, step) ==
    /\ CanStart
    /\ Respond(IF ~HasRow(code)
               THEN NotFound("interstitial", code, step)
               ELSE InterstitialPage(code, step))
    /\ UNCHANGED <<links, req, created, INTERSTITIAL_STEPS>>

\* ------------------------------------------------------------------ final

\* final(code): the SELECT finds no row.
FinalNotFound(code) ==
    /\ CanStart
    /\ ~HasRow(code)
    /\ Respond(NotFound("final", code, 0))
    /\ UNCHANGED <<links, req, created, INTERSTITIAL_STEPS>>

\* final(code): row = SELECT * ... fetchone() finds the row; target = row["target"].
FinalSelect(w, code) ==
    /\ CanStart
    /\ req[w].pc = "idle"
    /\ HasRow(code)
    /\ req' = [req EXCEPT ![w] = [Idle EXCEPT !.pc = "final_update", !.code = code,
                                                !.row = links[code],
                                                !.target = links[code].target]]
    /\ UNCHANGED <<links, now, last, created, INTERSTITIAL_STEPS>>

\* final(code): UPDATE clicks, commit, and the page that redirects to target.
FinalUpdate(w) ==
    /\ req[w].pc = "final_update"
    /\ links' = IncrementClicks(links, req[w].code)
    /\ Respond(Response("final", req[w].code, 0, NoText, 200, "final_redirect",
                        NoUrl, req[w].target, 0, 0))
    /\ req' = [req EXCEPT ![w] = Idle]
    /\ UNCHANGED <<created, INTERSTITIAL_STEPS>>

\* --------------------------------------------------------------- api_info

api_info(code) ==
    /\ CanStart
    /\ Respond(IF ~HasRow(code)
               THEN Response("api_info", code, 0, NoText, 404, "json_error",
                             NoUrl, NoText, 0, 0)
               ELSE Response("api_info", code, 0, NoText, 200, "json",
                             NoUrl, links[code].target,
                             links[code].created_at, links[code].clicks))
    /\ UNCHANGED <<links, req, created, INTERSTITIAL_STEPS>>

\* ------------------------------------------------------------------- Next

Steps == 0..MaxStep

Next ==
    \/ \E raw \in RawTargets : CreateInvalid(raw)
    \/ \E w \in Slots, raw \in RawTargets : CreateValid(w, raw)
    \/ \E w \in Slots, c \in random_code(CODE_LEN) : UniqueCodeRetry(w, c)
    \/ \E w \in Slots, c \in random_code(CODE_LEN) : UniqueCodeReturn(w, c)
    \/ \E w \in Slots : CreateInsert(w)
    \/ \E code \in Codes : go(code)
    \/ \E code \in Codes, step \in Steps : interstitial(code, step)
    \/ \E code \in Codes : FinalNotFound(code)
    \/ \E w \in Slots, code \in Codes : FinalSelect(w, code)
    \/ \E w \in Slots : FinalUpdate(w)
    \/ \E code \in Codes : api_info(code)

Spec == Init /\ [][Next]_vars

\* random.choice draws every symbol with positive probability, so a loop of
\* unique_code that keeps running while some code is unused draws an unused
\* code in the end; a thread that is in the loop keeps being scheduled.
FairSpec ==
    /\ Init
    /\ [][Next]_vars
    /\ \A w \in Slots : WF_vars(\E c \in random_code(CODE_LEN) : UniqueCodeReturn(w, c))

\* ------------------------------------------------------------- properties

\* Steps of a behaviour, told apart by the handler position they leave.
InsertStep(w) == req[w].pc = "insert" /\ req'[w].pc = "idle"

FinalUpdateStep(w) == req[w].pc = "final_update" /\ req'[w].pc = "idle"

ReturnStep(w) == req[w].pc = "unique_code" /\ req'[w].pc = "insert"

RetryStep(w) ==
    req[w].pc = "unique_code" /\ req'[w].pc = "unique_code" /\ req'[w].c # req[w].c

\* A step in which a handler returned a response.
Responded == now' = now + 1

\* The spec's validation rule, written without is_valid_url: a well-formed
\* absolute URL whose scheme is http or https and whose host is not empty.
ValidTarget(u) ==
    /\ ~(InSeq("[", UrlNetloc(u)) # InSeq("]", UrlNetloc(u)))
    /\ UrlScheme(u) \in {HTTP, HTTPS}
    /\ UrlNetloc(u) # <<>>

\* The Links of a table as a set of <<code, row>> pairs.
LinkSet(tbl) == {<<k, tbl[k]>> : k \in DOMAIN tbl}

\* C1: no two Links share a code, also under concurrent creation: a create
\* request never inserts under a code that is in the store already, so two
\* successful create requests never insert under the same code.
C1_InsertsUnderFreshCode ==
    [][\A w \in Slots : InsertStep(w) => req[w].code \notin DOMAIN links]_vars

\* C2: the UPDATE of every final(code) request raises the clicks of that
\* Link by exactly 1, whatever other requests ran between its SELECT and its
\* UPDATE, so k final requests raise clicks by k (no lost update).
C2_FinalAddsOneClick ==
    [][\A w \in Slots : FinalUpdateStep(w) =>
            /\ req[w].code \in DOMAIN links
            /\ req[w].code \in DOMAIN links'
            /\ links'[req[w].code].clicks = links[req[w].code].clicks + 1]_vars

\* Two final requests on one code overlap: one read the row at clicks = 0 and
\* has not run its UPDATE yet, the other has returned and clicks is 1.
C2_Witness ==
    \E w \in Slots :
        /\ req[w].pc = "final_update"
        /\ req[w].row.clicks = 0
        /\ last.op = "final" /\ last.status = 200 /\ last.code = req[w].code
        /\ links[req[w].code].clicks = 1

\* C3: round trip: when create accepted target T and returned code c, every
\* later final(c) redirects to exactly T.
C3_RoundTrip ==
    (last.op = "final" /\ last.status = 200) =>
        \A p \in created : p[1] = last.code => p[2] = last.target

\* C4: clicks is 0 when a Link is created, and no step of any request lowers
\* the clicks of a Link or removes a Link.
C4_ClicksNeverDecrease ==
    [][/\ \A k \in DOMAIN links :
            k \in DOMAIN links' /\ links'[k].clicks >= links[k].clicks
       /\ \A k \in DOMAIN links' \ DOMAIN links : links'[k].clicks = 0]_vars

\* C5: an insert under a code that is in the store already (another create
\* inserted it after this request's lookup) leaves the existing Link and the
\* rest of the store unchanged, sends the request back to code generation,
\* and returns nothing to the caller.
C5_DuplicateInsertRetries ==
    [][\A w \in Slots :
            (req[w].pc = "insert" /\ req[w].code \in DOMAIN links /\ req'[w] # req[w]) =>
                /\ links' = links
                /\ req'[w].pc = "unique_code"
                /\ ~Responded]_vars

\* The waiting pages a visitor sees who starts at /s/<code>/<step> and
\* follows every next_url and redirect until the final URL.
RECURSIVE PagesFrom(_, _, _)
PagesFrom(code, step, fuel) ==
    LET r == InterstitialPage(code, step)
        here == IF r.kind = "waiting" THEN <<step>> ELSE <<>>
    IN  IF fuel = 0 \/ r.loc.route # "interstitial"
        THEN here
        ELSE here \o PagesFrom(code, r.loc.step, fuel - 1)

\* C6: for a known code and a positive step, interstitial redirects to final
\* without a waiting page when step > N, and otherwise renders a waiting page
\* whose next_url is step + 1 when step < N and final when step = N; following
\* next_url from step 1 shows the pages 1, ..., N in order, N pages in all.
C6_InterstitialSequence ==
    /\ (last.op = "interstitial" /\ last.status # 404 /\ last.step >= 1) =>
          IF last.step > INTERSTITIAL_STEPS
          THEN /\ last.status = 302
               /\ last.kind = "redirect"
               /\ last.loc = Url("final", last.code, 0)
          ELSE /\ last.status = 200
               /\ last.kind = "waiting"
               /\ last.step < INTERSTITIAL_STEPS =>
                      last.loc = Url("interstitial", last.code, last.step + 1)
               /\ last.step = INTERSTITIAL_STEPS =>
                      last.loc = Url("final", last.code, 0)
    /\ \A code \in Codes :
          PagesFrom(code, 1, MaxTotal + MaxStep + 2) = [i \in 1..INTERSTITIAL_STEPS |-> i]

\* A waiting page that is not the last one was rendered.
C6_Witness ==
    /\ last.op = "interstitial"
    /\ last.kind = "waiting"
    /\ last.step >= 1
    /\ last.step < INTERSTITIAL_STEPS

\* C7: go answers 404 for a code without a Link and otherwise redirects to
\* /s/<code>/1; interstitial and final answer 404 exactly for a code without
\* a Link; api_info answers 404 with {"error": "not_found"} for such a code.
C7_UnknownCodeIs404 ==
    /\ last.op = "go" =>
          IF last.code \in DOMAIN links
          THEN last.status = 302 /\ last.loc = Url("interstitial", last.code, 1)
          ELSE last.status = 404 /\ last.kind = "not_found_page"
    /\ last.op \in {"interstitial", "final"} =>
          IF last.code \in DOMAIN links
          THEN last.status # 404
          ELSE last.status = 404 /\ last.kind = "not_found_page"
    /\ last.op = "api_info" =>
          IF last.code \in DOMAIN links
          THEN last.status = 200 /\ last.kind = "json"
          ELSE last.status = 404 /\ last.kind = "json_error"

\* go redirected for one code while another code has no Link.
C7_Witness ==
    /\ last.op = "go"
    /\ last.status = 302
    /\ last.loc = Url("interstitial", last.code, 1)
    /\ DOMAIN links # Codes

\* C8: go, interstitial and api_info requests and every request answered 404
\* leave the store unchanged; the UPDATE of a final request changes only the
\* clicks of the Link under its code: that Link's target, created_at and
\* title, and every other Link, stay as they were.
C8_OnlyFinalMutatesClicks ==
    [][/\ (Responded /\ (last'.op \in {"go", "interstitial", "api_info"} \/ last'.status = 404))
            => links' = links
       /\ \A w \in Slots : FinalUpdateStep(w) =>
            /\ DOMAIN links' = DOMAIN links
            /\ \A k \in DOMAIN links :
                  IF k = req[w].code
                  THEN links'[k] = [links[k] EXCEPT !.clicks = links'[k].clicks]
                  ELSE links'[k] = links[k]]_vars

\* A final request was served while the store holds a second Link.
C8_Witness ==
    /\ last.op = "final"
    /\ last.status = 200
    /\ links[last.code].clicks >= 1
    /\ Cardinality(DOMAIN links) = 2

C10_UniqueCode ==
    /\ [][\A w \in Slots :
            /\ RetryStep(w) => req'[w].c \in DOMAIN links
            /\ ReturnStep(w) =>
                  /\ req'[w].code = req'[w].c
                  /\ req'[w].code \notin DOMAIN links
                  /\ Len(req'[w].code) = CODE_LEN
                  /\ \A i \in 1..Len(req'[w].code) : req'[w].code[i] \in BASE62]_vars
    /\ \A w \in Slots :
            (req[w].pc = "unique_code") ~>
                (req[w].pc # "unique_code" \/ DOMAIN links = Codes)

\* unique_code returned a code while another code was already in the store,
\* after a lookup that could have hit it.
C10_Witness ==
    \E w \in Slots :
        /\ req[w].pc = "insert"
        /\ req[w].code \notin DOMAIN links
        /\ DOMAIN links # {}

====
